---------------------------- MODULE Spec2Model ----------------------------
(***************************************************************************)
(* A model of app.py of youtube-llama2: the caption filter                 *)
(* (filter_subtitles), the identifier extractor (extract_video_id), the    *)
(* caption fetcher (download_subtitles), the text-completion client        *)
(* (format_with_clarifai_api) and the Streamlit script that sequences      *)
(* them.                                                                   *)
(*                                                                         *)
(* A Python str is a sequence of one-character strings; None is the        *)
(* one-element sequence <<"None">>, which no str equals.  The characters   *)
(* are those a TLA+ string can hold, U+0000 to U+00FF; the character       *)
(* classes below are Python's on that range.                               *)
(***************************************************************************)
EXTENDS Naturals, Sequences, FiniteSets

(***************************************************************************)
(* Bounds of the model.                                                    *)
(***************************************************************************)
\* The number of "\n"-separated lines of a caption document given to the filter.
MaxLines == 5
\* The length of a string given to extract_video_id.
MaxUrlLen == 6

(***************************************************************************)
(* The state: of a call of filter_subtitles, of a call of extract_video_id *)
(* and of a session of the Streamlit script.                               *)
(***************************************************************************)
VARIABLES
  subtitle_str,   \* the argument of filter_subtitles
  lines,          \* its local lines
  idx,            \* how many of the lines the loop has consumed
  scan,           \* its locals past_header, capture_next, content_lines
  fpc,            \* "idle", "call", "loop", "done", "again"
  result,         \* the value filter_subtitles returned (None before it returns)
  rerun           \* filter_subtitles of the wrapped result (None before)

fvars == <<subtitle_str, lines, idx, scan, fpc, result, rerun>>

VARIABLES
  id_arg,      \* the argument of extract_video_id
  id_ret,      \* the value it returned (None before it returns)
  ipc          \* "idle", "call", "done"

ivars == <<id_arg, id_ret, ipc>>

VARIABLES
  env_pat,              \* os.environ.get('CLARIFAI_PAT'): None, "" or a token
  secret_pat,           \* st.secrets['CLARIFAI_PAT']: None (KeyError), "" or a token
  url_or_id,            \* the text input
  selected_model_name,  \* the select box
  video_id,             \* the script's video_id of the run (None: not set)
  subtitles,            \* the script's subtitles of the run
  formatted_text,       \* st.session_state.formatted_text
  video_description,    \* the title and description of the run (None: not set)
  temp_file,            \* /tmp/temp_subtitle_file.en.vtt: None (no file) or its content
  file_by,              \* who wrote that file: "none", "self", "other" (another session)
  content,              \* download_subtitles' content, once read
  pc,                   \* where the run is: "idle" (ended), "ydl", "read", "remove"
  shown,                \* the widgets the run rendered
  errors,               \* the errors the run showed
  last_call,            \* the last PostModelOutputs request sent, with the value returned
                        \* for it: a sequence of none or one
  last_format,          \* the text and the returned value of the last punctuate call
                        \* that returned: a sequence of none or one
  event                 \* the button clicked for the run: "none", "punctuate", "generate"

svars == <<env_pat, secret_pat, url_or_id, selected_model_name, video_id, subtitles,
           formatted_text, video_description, temp_file, file_by, content, pc,
           shown, errors, last_call, last_format, event>>

vars == <<fvars, ivars, svars>>

(***************************************************************************)
(* Python's str operations, as app.py uses them.                           *)
(***************************************************************************)
None == <<"None">>

\* bool(x) of a str or None
Truthy(x) == x # None /\ x # <<>>

\* str.isspace() of one character, what str.strip() removes: space, \t, \n,
\* \r, \f (U+000C), and written raw: U+000B, U+001C, U+001D, U+001E, U+001F,
\* U+0085, U+00A0.
IsSpace(c) ==
  c \in {" ", "\t", "\n", "\r", "\f", "", "", "", "", "", "", " "}

RECURSIVE LStrip(_)
LStrip(s) ==
  IF s = <<>> THEN s
  ELSE IF IsSpace(Head(s)) THEN LStrip(Tail(s)) ELSE s

RECURSIVE RStrip(_)
RStrip(s) ==
  IF s = <<>> THEN s
  ELSE IF IsSpace(s[Len(s)]) THEN RStrip(SubSeq(s, 1, Len(s) - 1)) ELSE s

\* s.strip()
Strip(s) == RStrip(LStrip(s))

\* sub in s
Contains(s, sub) ==
  \E i \in 1..(Len(s) + 1) :
    /\ i + Len(sub) - 1 <= Len(s)
    /\ SubSeq(s, i, i + Len(sub) - 1) = sub

RECURSIVE SplitFrom(_, _, _)
SplitFrom(s, cur, acc) ==
  IF s = <<>> THEN Append(acc, cur)
  ELSE IF Head(s) = "\n" THEN SplitFrom(Tail(s), <<>>, Append(acc, cur))
  ELSE SplitFrom(Tail(s), Append(cur, Head(s)), acc)

\* s.split("\n"): never empty, "".split("\n") is [""]
Split(s) == SplitFrom(s, <<>>, <<>>)

RECURSIVE Join(_)
\* "\n".join(ls)
Join(ls) ==
  IF ls = <<>> THEN <<>>
  ELSE IF Len(ls) = 1 THEN ls[1]
  ELSE ls[1] \o <<"\n">> \o Join(Tail(ls))

RECURSIVE Replace(_, _, _)
\* s.replace(c, r) for a one-character c
Replace(s, c, r) ==
  IF s = <<>> THEN <<>>
  ELSE (IF Head(s) = c THEN r ELSE <<Head(s)>>) \o Replace(Tail(s), c, r)

(***************************************************************************)
(* filter_subtitles                                                        *)
(***************************************************************************)
Arrow == <<"-", "-", ">">>

\* The locals of filter_subtitles before its loop.
ScanStart == [past_header |-> FALSE, capture_next |-> FALSE, content_lines |-> <<>>]

\* The loop body without line.strip(): a line with its surrounding whitespace
\* is compared and captured as it stands.
LoopBodyNoStrip(st, rawline) ==
  LET line == rawline IN
  IF Contains(line, Arrow)
    THEN [st EXCEPT !.past_header = TRUE, !.capture_next = TRUE]
  ELSE IF ~st.past_header THEN st
  ELSE IF st.capture_next /\ line # <<>> /\ ~Contains(line, <<"<">>) /\ ~Contains(line, <<">">>)
    THEN [st EXCEPT
            !.content_lines =
              IF st.content_lines = <<>> \/ st.content_lines[Len(st.content_lines)] # line
                THEN Append(st.content_lines, line) ELSE st.content_lines,
            !.capture_next = FALSE]
  ELSE st

\* The loop body without the comparison to the last captured line.
LoopBodyNoDedup(st, rawline) ==
  LET line == Strip(rawline) IN
  IF Contains(line, Arrow)
    THEN [st EXCEPT !.past_header = TRUE, !.capture_next = TRUE]
  ELSE IF ~st.past_header THEN st
  ELSE IF st.capture_next /\ line # <<>> /\ ~Contains(line, <<"<">>) /\ ~Contains(line, <<">">>)
    THEN [st EXCEPT !.content_lines = Append(st.content_lines, line),
                    !.capture_next = FALSE]
  ELSE st

\* The loop body testing only "<", so that a line holding ">" alone is captured.
LoopBodyOpenTagOnly(st, rawline) ==
  LET line == Strip(rawline) IN
  IF Contains(line, Arrow)
    THEN [st EXCEPT !.past_header = TRUE, !.capture_next = TRUE]
  ELSE IF ~st.past_header THEN st
  ELSE IF st.capture_next /\ line # <<>> /\ ~Contains(line, <<"<">>)
    THEN [st EXCEPT
            !.content_lines =
              IF st.content_lines = <<>> \/ st.content_lines[Len(st.content_lines)] # line
                THEN Append(st.content_lines, line) ELSE st.content_lines,
            !.capture_next = FALSE]
  ELSE st

\* The loop body without the reset of capture_next after a capture.
LoopBodyNoReset(st, rawline) ==
  LET line == Strip(rawline) IN
  IF Contains(line, Arrow)
    THEN [st EXCEPT !.past_header = TRUE, !.capture_next = TRUE]
  ELSE IF ~st.past_header THEN st
  ELSE IF st.capture_next /\ line # <<>> /\ ~Contains(line, <<"<">>) /\ ~Contains(line, <<">">>)
    THEN [st EXCEPT
            !.content_lines =
              IF st.content_lines = <<>> \/ st.content_lines[Len(st.content_lines)] # line
                THEN Append(st.content_lines, line) ELSE st.content_lines]
  ELSE st

\* One iteration of the loop of filter_subtitles on the line rawline.
LoopBody(st, rawline) ==
  LET line == Strip(rawline) IN
  IF Contains(line, Arrow)
    THEN [st EXCEPT !.past_header = TRUE, !.capture_next = TRUE]
  ELSE IF ~st.past_header THEN st
  ELSE IF st.capture_next /\ line # <<>> /\ ~Contains(line, <<"<">>) /\ ~Contains(line, <<">">>)
    THEN [st EXCEPT
            !.content_lines =
              IF st.content_lines = <<>> \/ st.content_lines[Len(st.content_lines)] # line
                THEN Append(st.content_lines, line) ELSE st.content_lines,
            !.capture_next = FALSE]
  ELSE st

RECURSIVE ScanFrom(_, _)
\* The loop of filter_subtitles over the lines ls, from the locals st.
ScanFrom(st, ls) ==
  IF ls = <<>> THEN st ELSE ScanFrom(LoopBody(st, Head(ls)), Tail(ls))

\* filter_subtitles(subtitle_str)
filter_subtitles(s) == Join(ScanFrom(ScanStart, Split(Strip(s))).content_lines)

\* Raw lines the caption documents are made of: empty, plain, padded with
\* whitespace (a form feed, a CRLF ending), a timing marker, tagged, and one
\* with a lone ">".
LinePool ==
  { <<>>, <<"a">>, <<"b">>, <<" ", "a", "\f", "\r">>,
    Arrow, <<"<", "a", ">">>, <<"b", ">">> }

\* The caption documents: 1..MaxLines pool lines joined by "\n".
Documents ==
  { Join(ls) : ls \in UNION { [1..n -> LinePool] : n \in 1..MaxLines } }


\* The result's lines, a synthetic timing marker before each.
RECURSIVE Wrap(_)
Wrap(ls) ==
  IF ls = <<>> THEN <<>>
  ELSE <<Arrow, Head(ls)>> \o Wrap(Tail(ls))

FilterInit ==
  /\ subtitle_str \in Documents
  /\ lines = <<>>
  /\ idx = 0
  /\ scan = ScanStart
  /\ fpc = "call"
  /\ result = None
  /\ rerun = None
  \* no call of extract_video_id, no session
  /\ id_arg = <<>>
  /\ id_ret = None
  /\ ipc = "idle"
  /\ env_pat = None
  /\ secret_pat = None
  /\ url_or_id = <<>>
  /\ selected_model_name = "Llama2-7b-chat"
  /\ video_id = None
  /\ subtitles = None
  /\ formatted_text = None
  /\ video_description = None
  /\ temp_file = None
  /\ file_by = "none"
  /\ content = None
  /\ pc = "idle"
  /\ shown = {}
  /\ errors = {}
  /\ last_call = <<>>
  /\ last_format = <<>>
  /\ event = "none"

\* lines 50-54
FilterCall ==
  /\ fpc = "call"
  /\ lines' = Split(Strip(subtitle_str))
  /\ scan' = ScanStart
  /\ idx' = 0
  /\ fpc' = "loop"
  /\ UNCHANGED <<subtitle_str, result, rerun, ivars, svars>>

\* lines 56-71, one iteration
FilterLine ==
  /\ fpc = "loop"
  /\ idx < Len(lines)
  /\ scan' = LoopBody(scan, lines[idx + 1])
  /\ idx' = idx + 1
  /\ UNCHANGED <<subtitle_str, lines, fpc, result, rerun, ivars, svars>>

\* line 73
FilterReturn ==
  /\ fpc = "loop"
  /\ idx = Len(lines)
  /\ result' = Join(scan.content_lines)
  /\ fpc' = "done"
  /\ UNCHANGED <<subtitle_str, lines, idx, scan, rerun, ivars, svars>>

\* filter_subtitles applied to its own output, a timing marker before each line
FilterAgain ==
  /\ fpc = "done"
  /\ rerun' = filter_subtitles(Join(Wrap(Split(result))))
  /\ fpc' = "again"
  /\ UNCHANGED <<subtitle_str, lines, idx, scan, result, ivars, svars>>

FilterNext == FilterCall \/ FilterLine \/ FilterReturn \/ FilterAgain


(***************************************************************************)
(* Properties of filter_subtitles.                                         *)
(***************************************************************************)
\* The input's lines, each trimmed, without the code's own split.
TrimmedLines(s) == LET raw == Split(s) IN [i \in 1..Len(raw) |-> Strip(raw[i])]

IsMarker(l) == Contains(l, Arrow)
TagFree(l) == \A i \in 1..Len(l) : l[i] \notin {"<", ">"}
Eligible(l) == l # <<>> /\ TagFree(l) /\ ~IsMarker(l)

\* Line j of T is the first non-empty tag-free line after the last timing marker before it.
IsCandidate(T, j) ==
  /\ Eligible(T[j])
  /\ \E m \in 1..(j - 1) :
       /\ IsMarker(T[m])
       /\ \A k \in (m + 1)..(j - 1) : ~IsMarker(T[k]) /\ ~Eligible(T[k])

RECURSIVE CandidatesFrom(_, _)
CandidatesFrom(T, j) ==
  IF j > Len(T) THEN <<>>
  ELSE (IF IsCandidate(T, j) THEN <<T[j]>> ELSE <<>>) \o CandidatesFrom(T, j + 1)

\* The first non-empty tag-free line of every cue block that has one, in order.
Candidates(s) == CandidatesFrom(TrimmedLines(s), 1)

\* c with every maximal run of equal neighbours reduced to its first element.
CollapseRuns(c) ==
  LET keep == { i \in 1..Len(c) : i = 1 \/ c[i] # c[i - 1] }
      F[i \in 0..Len(c)] ==
        IF i = 0 THEN <<>> ELSE IF i \in keep THEN Append(F[i - 1], c[i]) ELSE F[i - 1]
  IN F[Len(c)]

NoAdjacentDup(ls) == \A i \in 1..(Len(ls) - 1) : ls[i] # ls[i + 1]

\* The lines of the returned text (a returned line is never empty).
ResultLines == IF result = <<>> THEN <<>> ELSE Split(result)

RECURSIVE IsSubseq(_, _)
\* a is b with some elements left out, the order kept.
IsSubseq(a, b) ==
  IF a = <<>> THEN TRUE
  ELSE IF b = <<>> THEN FALSE
  ELSE IF Head(a) = Head(b) THEN IsSubseq(Tail(a), Tail(b))
  ELSE IsSubseq(a, Tail(b))

\* The timing-marker lines among the first n of ls.
MarkersSeen(ls, n) == Cardinality({ k \in 1..n : IsMarker(Strip(ls[k])) })

\* C1: at every step of the scan and in the result no captured line equals the
\* captured line before it, and the returned lines are the cue blocks' first
\* non-empty tag-free lines with every run of equal consecutive ones emitted once.
C1_AdjacentDuplicatesSuppressed ==
  /\ NoAdjacentDup(scan.content_lines)
  /\ fpc \in {"done", "again"} =>
       /\ NoAdjacentDup(ResultLines)
       /\ ResultLines = CollapseRuns(Candidates(subtitle_str))

\* C1 witness: a returned transcript in which a line repeated by consecutive cues was emitted once.
C1_Witness ==
  /\ fpc = "done"
  /\ Len(ResultLines) = 1
  /\ Len(Candidates(subtitle_str)) = 2
  /\ \E i \in 1..(Len(Candidates(subtitle_str)) - 1) :
       Candidates(subtitle_str)[i] = Candidates(subtitle_str)[i + 1]

\* C2: the returned lines are an order-preserving subsequence of the trimmed
\* input lines, and each is non-empty, holds neither "<" nor ">" and is no timing marker.
C2_OutputIsCleanSubsequence ==
  fpc \in {"done", "again"} =>
    /\ IsSubseq(ResultLines, TrimmedLines(subtitle_str))
    /\ \A i \in 1..Len(ResultLines) :
         /\ ResultLines[i] # <<>>
         /\ TagFree(ResultLines[i])
         /\ ~IsMarker(ResultLines[i])

\* C2 witness: a returned transcript of a document with a tagged line right after a timing marker.
C2_Witness ==
  /\ fpc = "done"
  /\ Len(ResultLines) >= 2
  /\ \E i \in 1..(Len(TrimmedLines(subtitle_str)) - 1) :
       /\ IsMarker(TrimmedLines(subtitle_str)[i])
       /\ ~IsMarker(TrimmedLines(subtitle_str)[i + 1])
       /\ ~TagFree(TrimmedLines(subtitle_str)[i + 1])

\* C3: at every step the captured lines are at most as many as the timing markers
\* seen; the capture is pending exactly when no non-empty tag-free line has come
\* since the last marker; without any marker the transcript is empty.
C3_AtMostOneCapturePerMarker ==
  /\ fpc \in {"loop", "done", "again"} =>
       /\ Len(scan.content_lines) <= MarkersSeen(lines, idx)
       /\ scan.past_header <=> MarkersSeen(lines, idx) > 0
       /\ scan.capture_next <=>
            \E m \in 1..idx :
              /\ IsMarker(Strip(lines[m]))
              /\ \A k \in (m + 1)..idx :
                   ~IsMarker(Strip(lines[k])) /\ ~Eligible(Strip(lines[k]))
  /\ (fpc \in {"done", "again"} /\ ~Contains(subtitle_str, Arrow)) => result = <<>>

\* C3 witness: the scan is past a marker followed by a tagged line and then a
\* captured line, with further eligible lines after it left out.
C3_Witness ==
  /\ fpc = "loop"
  /\ idx = Len(lines)
  /\ idx >= 4
  /\ MarkersSeen(lines, idx) = 1
  /\ Len(scan.content_lines) = 1
  /\ IsMarker(Strip(lines[idx - 3]))
  /\ ~TagFree(Strip(lines[idx - 2])) /\ ~IsMarker(Strip(lines[idx - 2]))
  /\ Eligible(Strip(lines[idx - 1]))
  /\ Eligible(Strip(lines[idx]))

\* C4: filter_subtitles applied to its own output, a synthetic timing marker
\* before each line, returns the same lines.
C4_Idempotent == fpc = "again" => rerun = result

\* C4 witness: the filter was applied again to a transcript of two lines.
C4_Witness == fpc = "again" /\ Len(ResultLines) >= 2 /\ rerun # None

(***************************************************************************)
(* extract_video_id                                                        *)
(***************************************************************************)
\* \w of a str pattern (Unicode matching): the letters, digits and "_" of
\* ASCII and the letters and numbers of U+0080 to U+00FF.
WordChars ==
  { "a", "b", "c", "d", "e", "f", "g", "h", "i", "j", "k", "l", "m",
    "n", "o", "p", "q", "r", "s", "t", "u", "v", "w", "x", "y", "z",
    "A", "B", "C", "D", "E", "F", "G", "H", "I", "J", "K", "L", "M",
    "N", "O", "P", "Q", "R", "S", "T", "U", "V", "W", "X", "Y", "Z",
    "0", "1", "2", "3", "4", "5", "6", "7", "8", "9", "_",
    "ª", "²", "³", "µ", "¹", "º", "¼", "½", "¾", "À", "Á", "Â", "Ã",
    "Ä", "Å", "Æ", "Ç", "È", "É", "Ê", "Ë", "Ì", "Í", "Î", "Ï", "Ð",
    "Ñ", "Ò", "Ó", "Ô", "Õ", "Ö", "Ø", "Ù", "Ú", "Û", "Ü", "Ý", "Þ",
    "ß", "à", "á", "â", "ã", "ä", "å", "æ", "ç", "è", "é", "ê", "ë",
    "ì", "í", "î", "ï", "ð", "ñ", "ò", "ó", "ô", "õ", "ö", "ø", "ù",
    "ú", "û", "ü", "ý", "þ", "ÿ" }

\* [\w-] of one character
IsIdChar(c) == c \in WordChars \cup {"-"}

\* The positions where (?<=v=)[\w-]+ matches: "v=" right before, [\w-] at it.
MatchStarts(s) ==
  { i \in 3..Len(s) : s[i - 2] = "v" /\ s[i - 1] = "=" /\ IsIdChar(s[i]) }

RECURSIVE GreedyEnd(_, _)
\* The last position of the greedy [\w-]+ that starts at i.
GreedyEnd(s, i) ==
  IF i + 1 <= Len(s) /\ IsIdChar(s[i + 1]) THEN GreedyEnd(s, i + 1) ELSE i

\* re.search: the leftmost position where the pattern matches.
Leftmost(S) == CHOOSE i \in S : \A j \in S : i <= j

\* The pattern as the lazy [\w-]+?: one character is matched.
extract_video_id_lazy(s) ==
  IF MatchStarts(s) = {} THEN s
  ELSE LET i == Leftmost(MatchStarts(s)) IN SubSeq(s, i, i)

\* The pattern as (?<=v=).+: everything after the first "v=" is matched.
extract_video_id_rest(s) ==
  LET starts == { i \in 3..Len(s) : s[i - 2] = "v" /\ s[i - 1] = "=" } IN
  IF starts = {} THEN s
  ELSE SubSeq(s, Leftmost(starts), Len(s))

\* extract_video_id(url_or_id)
extract_video_id(s) ==
  IF MatchStarts(s) = {} THEN s
  ELSE LET i == Leftmost(MatchStarts(s)) IN SubSeq(s, i, GreedyEnd(s, i))

\* The characters of the strings given to extract_video_id: three word
\* characters (one of them not ASCII), the hyphen, and two characters that
\* end an identifier.
UrlChars == {"v", "a", "é", "-", "=", "&"}

UrlStrings == UNION { [1..n -> UrlChars] : n \in 0..MaxUrlLen }


IdInit ==
  /\ id_arg \in UrlStrings
  /\ id_ret = None
  /\ ipc = "call"
  \* no call of filter_subtitles, no session
  /\ subtitle_str = <<>>
  /\ lines = <<>>
  /\ idx = 0
  /\ scan = ScanStart
  /\ fpc = "idle"
  /\ result = None
  /\ rerun = None
  /\ env_pat = None
  /\ secret_pat = None
  /\ url_or_id = <<>>
  /\ selected_model_name = "Llama2-7b-chat"
  /\ video_id = None
  /\ subtitles = None
  /\ formatted_text = None
  /\ video_description = None
  /\ temp_file = None
  /\ file_by = "none"
  /\ content = None
  /\ pc = "idle"
  /\ shown = {}
  /\ errors = {}
  /\ last_call = <<>>
  /\ last_format = <<>>
  /\ event = "none"

\* lines 79-80
ExtractVideoId ==
  /\ ipc = "call"
  /\ id_ret' = extract_video_id(id_arg)
  /\ ipc' = "done"
  /\ UNCHANGED <<id_arg, fvars, svars>>

IdNext == ExtractVideoId


(***************************************************************************)
(* Properties of extract_video_id.                                         *)
(***************************************************************************)
AllIdChars(s) == \A i \in 1..Len(s) : IsIdChar(s[i])

\* The positions of a "v=" that a word character or hyphen follows.
MarkerOccurrences(s) ==
  { p \in 1..(Len(s) - 2) : SubSeq(s, p, p + 1) = <<"v", "=">> /\ IsIdChar(s[p + 2]) }

\* r is the maximal run of word characters and hyphens of s right after position p + 1.
IsMaximalRunAfter(s, p, r) ==
  /\ Len(r) >= 1
  /\ p + 1 + Len(r) <= Len(s)
  /\ r = SubSeq(s, p + 2, p + 1 + Len(r))
  /\ AllIdChars(r)
  /\ p + 2 + Len(r) <= Len(s) => ~IsIdChar(s[p + 2 + Len(r)])

\* C5: extract_video_id returns, for a string with a "v=" that a word character
\* or hyphen follows, the maximal run of such characters after the leftmost such
\* "v=", and returns every other string unchanged.
C5_ExtractsLeftmostMaximalRun ==
  ipc = "done" =>
    /\ id_ret # None
    /\ IF MarkerOccurrences(id_arg) = {}
         THEN id_ret = id_arg
         ELSE \E p \in MarkerOccurrences(id_arg) :
                /\ \A q \in MarkerOccurrences(id_arg) : p <= q
                /\ IsMaximalRunAfter(id_arg, p, id_ret)

\* C5 witness: a string with two such markers, the first run ended by another character.
C5_Witness ==
  /\ ipc = "done"
  /\ Cardinality(MarkerOccurrences(id_arg)) >= 2
  /\ Len(id_ret) >= 1
  /\ Len(id_ret) + 3 < Len(id_arg)

\* C6 as stated: the identifier extract_video_id returns holds only word
\* characters and hyphens, whatever the input.
C6_AlwaysUrlSafe == ipc = "done" => AllIdChars(id_ret)

\* C6 amended: the returned identifier holds only word characters and hyphens
\* when the input has a "v=" that such a character follows, or itself holds
\* only such characters; every other input is returned unchanged.
C6_UrlSafeWhenMarkedOrBare ==
  ipc = "done" =>
    /\ (MarkerOccurrences(id_arg) # {} \/ AllIdChars(id_arg)) =>
          AllIdChars(id_ret) /\ (id_arg # <<>> => id_ret # <<>>)
    /\ (MarkerOccurrences(id_arg) = {} /\ ~AllIdChars(id_arg)) =>
          id_ret = id_arg /\ ~AllIdChars(id_ret)

\* C6 witness: an identifier cut out of a string that holds other characters too.
C6_Witness ==
  /\ ipc = "done"
  /\ MarkerOccurrences(id_arg) # {}
  /\ ~AllIdChars(id_arg)
  /\ Len(id_ret) >= 2
  /\ Len(id_ret) + 2 < Len(id_arg)

(***************************************************************************)
(* The session: the Streamlit script (lines 178-214), run from top to      *)
(* bottom for every user action, with download_subtitles and               *)
(* format_with_clarifai_api.  What outlives a run: the widgets' values,    *)
(* the session state, the process environment and the secrets store, and   *)
(* the temporary file, which every session of the process shares.  A run   *)
(* waits in ydl.download and works on the file in three steps (write,      *)
(* open and read, remove), renders the buttons, then waits for the        *)
(* provider when one was clicked; other sessions act on the file in        *)
(* between.  A user action starts a run when no run is in progress.        *)
(* Characters are                                                          *)
(* those of U+0001 to U+00FF.                                              *)
(***************************************************************************)
format_prompt == <<"[format_prompt]">>
video_prompt == <<"[video_prompt]">>

\* lines 16-47
models ==
  [ n \in {"Llama2-7b-chat", "Llama2-13b-chat", "Llama2-70b-chat", "GPT-3", "GPT-4"} |->
      CASE n = "Llama2-7b-chat" ->
             [USER_ID |-> "meta", APP_ID |-> "Llama-2", MODEL_ID |-> "Llama2-7b-chat",
              MODEL_VERSION_ID |-> "e52af5d6bc22445aa7a6761f327f7129"]
        [] n = "Llama2-13b-chat" ->
             [USER_ID |-> "meta", APP_ID |-> "Llama-2", MODEL_ID |-> "llama2-13b-chat",
              MODEL_VERSION_ID |-> "79a1af31aa8249a99602fc05687e8f40"]
        [] n = "Llama2-70b-chat" ->
             [USER_ID |-> "meta", APP_ID |-> "Llama-2", MODEL_ID |-> "llama2-70b-chat",
              MODEL_VERSION_ID |-> "6c27e86364ba461d98de95cddc559cb3"]
        [] n = "GPT-3" ->
             [USER_ID |-> "openai", APP_ID |-> "chat-completion", MODEL_ID |-> "GPT-3_5-turbo",
              MODEL_VERSION_ID |-> "8ea3880d08a74dc0b39500b99dfaa376"]
        [] OTHER ->
             [USER_ID |-> "openai", APP_ID |-> "chat-completion", MODEL_ID |-> "GPT-4",
              MODEL_VERSION_ID |-> "ad16eda6ac054796bf9f348ab6733c72"] ]

\* Bytes of a caption file that are not valid UTF-8.
BadBytes == <<"[undecodable bytes]">>

\* What stands for the value of a call that raised after sending its request.
Raised == <<"[raised]">>

\* The values of the credential in the environment and in the secrets store.
EnvToken == <<"E">>
SecretToken == <<"S">>

\* What the user types: nothing, a watch URL query and a bare identifier.
UrlInputs == { <<>>, <<"v", "=", "a">>, <<"b">> }

\* The caption file the downloader writes for a video: a header, then cues
\* that repeat the line and carry a tagged copy of it; one line ends in CRLF.
CaptionDoc(vid) ==
  Join(<< <<"W">>, <<>>, Arrow, vid \o <<"\r">>, Arrow, vid, Arrow,
          <<"<">> \o vid \o <<">">>, vid \o <<" ", "x">> >>)

\* A caption file with a header and no cue.
HeaderOnlyDoc == <<"W", "\n">>

\* What ydl.download can do: write the captions, write a file without cues,
\* write bytes that do not decode, write nothing (no captions), or raise.
DownloadOutcomes == {"captions", "no_cues", "undecodable", "no_captions", "error"}

\* line 96: the temporary file after ydl.download that did not raise.
Written(vid, file, dl) ==
  CASE dl = "captions" -> CaptionDoc(vid)
    [] dl = "no_cues" -> HeaderOnlyDoc
    [] dl = "undecodable" -> BadBytes
    [] OTHER -> file

RECURSIVE UniversalNewlines(_)
\* lines 98-99: open(..., "r") reads "\r\n" and a lone "\r" as "\n".
UniversalNewlines(s) ==
  IF s = <<>> THEN <<>>
  ELSE IF Head(s) = "\r"
    THEN <<"\n">> \o UniversalNewlines(
           IF Len(s) >= 2 /\ s[2] = "\n" THEN Tail(Tail(s)) ELSE Tail(s))
  ELSE <<Head(s)>> \o UniversalNewlines(Tail(s))

\* line 104: the value download_subtitles returns for the text it read.
download_subtitles_value(text) ==
  Replace(Replace(filter_subtitles(text), "\n", <<" ">>), "\r", <<>>)

\* The credential looked up in the secrets store before the environment.
ResolvePATSecretsFirst(env, secret) ==
  IF secret # None THEN [pat |-> secret, error |-> FALSE]
  ELSE IF Truthy(env) THEN [pat |-> env, error |-> FALSE]
  ELSE [pat |-> None, error |-> TRUE]

\* lines 109-116: PAT, and whether st.error was called (secret = None: KeyError).
ResolvePAT(env, secret) ==
  IF Truthy(env) THEN [pat |-> env, error |-> FALSE]
  ELSE IF secret # None THEN [pat |-> secret, error |-> FALSE]
  ELSE [pat |-> None, error |-> TRUE]

\* What stub.PostModelOutputs can do: answer with a failure status, with a
\* completion, with blanks, with an empty text or with no output, or raise.
ReplyKinds == {"failure", "completion", "blank", "empty", "no_outputs", "rpc_error"}

\* The text a completion holds: the transcript punctuated, or a title for it.
Completion(prompt, raw_text) ==
  IF prompt = format_prompt THEN raw_text \o <<".">> ELSE <<"T", ":">> \o raw_text

\* The provider's response to a request: its status and the texts of its outputs.
Reply(kind, prompt, raw_text) ==
  CASE kind = "failure" -> [status |-> "FAILURE", outputs |-> <<>>]
    [] kind = "completion" ->
         [status |-> "SUCCESS",
          outputs |-> << <<" ">> \o Completion(prompt, raw_text) \o <<"\n">> >>]
    [] kind = "blank" -> [status |-> "SUCCESS", outputs |-> << <<" ">> >>]
    [] kind = "empty" -> [status |-> "SUCCESS", outputs |-> << <<>> >>]
    [] OTHER -> [status |-> "SUCCESS", outputs |-> <<>>]

\* lines 146-152: the value returned for the provider's response; Raised for
\* the IndexError of outputs[0] on a response without outputs.
Returned(response) ==
  IF response.status # "SUCCESS" THEN None
  ELSE IF response.outputs = <<>> THEN Raised
  ELSE IF response.outputs[1] # <<>> THEN Strip(response.outputs[1]) ELSE None

\* format_with_clarifai_api(raw_text, prompt), stub.PostModelOutputs doing kind:
\* whether it raised, the errors shown, the request sent and the value returned.
format_with_clarifai_api(raw_text, prompt, kind) ==
  LET r == ResolvePAT(env_pat, secret_pat)
      request == [prompt |-> prompt, raw_text |-> raw_text,
                  full_prompt |-> prompt \o <<"\n">> \o raw_text \o <<"\n">>,
                  authorization |-> <<"K", "e", "y", " ">> \o r.pat,
                  user_id |-> models[selected_model_name].USER_ID,
                  app_id |-> models[selected_model_name].APP_ID,
                  model_id |-> models[selected_model_name].MODEL_ID,
                  version_id |-> models[selected_model_name].MODEL_VERSION_ID]
  IN
  IF r.pat = None
    THEN \* line 121: 'Key ' + None raises TypeError
         [raised |-> TRUE, errors |-> {"pat_missing", "TypeError"},
          sent |-> <<>>, value |-> None]
  ELSE IF kind = "rpc_error"
    THEN \* line 128 raises
         [raised |-> TRUE, errors |-> {"RpcError"},
          sent |-> << [request |-> request, result |-> Raised] >>, value |-> None]
  ELSE
    LET response == Reply(kind, prompt, raw_text)
        value == Returned(response)
    IN IF value = Raised
         THEN \* line 150 raises IndexError
              [raised |-> TRUE, errors |-> {"IndexError"},
               sent |-> << [request |-> request, result |-> Raised] >>, value |-> None]
         ELSE [raised |-> FALSE,
               errors |-> IF response.status # "SUCCESS" THEN {"provider"} ELSE {},
               sent |-> << [request |-> request, result |-> value] >>,
               value |-> value]

\* Line 204 keeping the stored text when the call returns nothing.
StoreFormattedKeepOld(old, new) == IF Truthy(new) THEN new ELSE old

\* line 204: st.session_state.formatted_text = format_with_clarifai_api(...)
StoreFormatted(old, new) == new

\* A session after the page's first run: the text input is empty, the first
\* model is selected (lines 178-200).
SessionInit ==
  /\ env_pat \in {None, <<>>, EnvToken}
  /\ secret_pat \in {None, <<>>, SecretToken}
  /\ url_or_id = <<>>
  /\ selected_model_name = "Llama2-7b-chat"
  /\ video_id = None
  /\ subtitles = None
  /\ formatted_text = None
  /\ video_description = None
  /\ temp_file = None
  /\ file_by = "none"
  /\ content = None
  /\ pc = "idle"
  /\ shown = {}
  /\ errors = {}
  /\ last_call = <<>>
  /\ last_format = <<>>
  /\ event = "none"
  \* no call of filter_subtitles or extract_video_id on its own
  /\ subtitle_str = <<>>
  /\ lines = <<>>
  /\ idx = 0
  /\ scan = ScanStart
  /\ fpc = "idle"
  /\ result = None
  /\ rerun = None
  /\ id_arg = <<>>
  /\ id_ret = None
  /\ ipc = "idle"

\* lines 178-191: a run starts for the text input u, the model m and the user
\* action click; with a text it goes on to download_subtitles, without one
\* nothing more is rendered (subtitles is None at line 202).
Begin(u, m, click) ==
  /\ pc = "idle"
  /\ url_or_id' = u
  /\ selected_model_name' = m
  /\ event' = click
  /\ video_id' = IF Truthy(u) THEN extract_video_id(u) ELSE None
  /\ subtitles' = None
  /\ video_description' = None
  /\ content' = None
  /\ shown' = IF Truthy(u) THEN {"video"} ELSE {}
  /\ errors' = {}
  /\ pc' = IF Truthy(u) THEN "ydl" ELSE "idle"
  /\ UNCHANGED <<env_pat, secret_pat, formatted_text, temp_file, file_by, last_call,
                 last_format, fvars, ivars>>

\* The user changes the text input.
EnterUrl ==
  \E u \in UrlInputs \ {url_or_id} : Begin(u, selected_model_name, "none")

\* The models the user selects among here: the first and the last of the catalog.
ModelChoices == {"Llama2-7b-chat", "GPT-4"}

\* The user selects another model.
SelectModel ==
  \E m \in ModelChoices \ {selected_model_name} : Begin(url_or_id, m, "none")

\* The script runs again with nothing changed and no click: a text area of
\* lines 195, 208, 214 was edited, or the page's Rerun was used.
Rerun ==
  /\ pc = "idle"
  /\ Begin(url_or_id, selected_model_name, "none")

\* The user clicks "Punctuate Script", rendered by the last run.
ClickPunctuate ==
  /\ "punctuate_btn" \in shown
  /\ Begin(url_or_id, selected_model_name, "punctuate")

\* The user clicks "Generate title and description", rendered by the last run.
ClickGenerate ==
  /\ "generate_btn" \in shown
  /\ Begin(url_or_id, selected_model_name, "generate")

\* lines 196-197, then 199-214 with subtitles None: download_subtitles raised.
DownloadFailed ==
  /\ errors' = errors \cup {"download"}
  /\ pc' = "idle"
  /\ UNCHANGED <<env_pat, secret_pat, url_or_id, selected_model_name, video_id, subtitles,
                 formatted_text, video_description, content, shown, last_call,
                 last_format, event,
                 fvars, ivars>>

\* lines 95-96: ydl.download ends, with the file written or not, or raises.
YdlDownload ==
  /\ pc = "ydl"
  /\ \E dl \in DownloadOutcomes :
       IF dl = "error"
         THEN DownloadFailed /\ UNCHANGED <<temp_file, file_by>>
         ELSE /\ temp_file' = Written(video_id, temp_file, dl)
              /\ file_by' = IF dl = "no_captions" THEN file_by ELSE "self"
              /\ pc' = "read"
              /\ UNCHANGED <<env_pat, secret_pat, url_or_id, selected_model_name, video_id,
                             subtitles, formatted_text, video_description, content, shown,
                             errors, last_call, last_format, event, fvars, ivars>>

\* lines 98-99: open and read; no file or undecodable bytes raise, and the file stays.
ReadFile ==
  /\ pc = "read"
  /\ IF temp_file = None \/ temp_file = BadBytes
       THEN DownloadFailed /\ UNCHANGED <<temp_file, file_by>>
       ELSE /\ content' = UniversalNewlines(temp_file)
            /\ pc' = "remove"
            /\ UNCHANGED <<env_pat, secret_pat, url_or_id, selected_model_name, video_id,
                           subtitles, formatted_text, video_description, temp_file, file_by,
                           shown, errors, last_call, last_format, event, fvars, ivars>>

\* lines 102-104 and 195: os.remove, which raises when the file is gone
\* (lines 196-197), then the transcript is returned and displayed.
RemoveFile ==
  /\ pc = "remove"
  /\ IF temp_file = None
       THEN DownloadFailed /\ UNCHANGED <<temp_file, file_by>>
       ELSE /\ temp_file' = None
            /\ file_by' = "none"
            /\ subtitles' = download_subtitles_value(content)
            /\ shown' = shown \cup {"subtitles"}
            /\ pc' = "render"
            /\ UNCHANGED <<env_pat, secret_pat, url_or_id, selected_model_name, video_id,
                           formatted_text, video_description, content, errors, last_call,
                           last_format, event, fvars, ivars>>

\* A run that ends with the error of an uncaught exception or of st.error.
EndRun(errs) ==
  /\ errors' = errors \cup errs
  /\ pc' = "idle"

\* lines 199-211 up to the provider call: the buttons and the stored text are
\* rendered; a clicked button calls format_with_clarifai_api, which raises
\* without a credential (lines 109-121) and otherwise waits in
\* stub.PostModelOutputs (line 128).
RenderButtons ==
  /\ pc = "render"
  /\ \E doP \in {Truthy(subtitles) /\ event = "punctuate"} :
     \E showF \in {Truthy(subtitles) /\ ~doP /\ Truthy(formatted_text)} :
     \E doG \in {showF /\ event = "generate"} :
     \E r \in {ResolvePAT(env_pat, secret_pat)} :
       /\ shown' = shown \cup (IF Truthy(subtitles) THEN {"punctuate_btn"} ELSE {})
                         \cup (IF showF THEN {"formatted", "generate_btn"} ELSE {})
       /\ IF (doP \/ doG) /\ r.pat = None
            THEN EndRun(format_with_clarifai_api(subtitles, format_prompt, "failure").errors)
          ELSE IF doP THEN pc' = "wait_format" /\ UNCHANGED errors
          ELSE IF doG THEN pc' = "wait_video" /\ UNCHANGED errors
          ELSE EndRun({})
  /\ UNCHANGED <<env_pat, secret_pat, url_or_id, selected_model_name, video_id, subtitles,
                 formatted_text, video_description, temp_file, file_by, content,
                 last_call, last_format, event, fvars, ivars>>

\* lines 128-152, then 204-208: the provider has done kind for the punctuate
\* request; the returned value is stored and, when it is a text, rendered with
\* the second button.  An exception ends the run before line 204.
PunctuateReply ==
  /\ pc = "wait_format"
  /\ \E kind \in ReplyKinds :
     \E p \in {format_with_clarifai_api(subtitles, format_prompt, kind)} :
     \E ft \in {IF p.raised THEN formatted_text
                ELSE StoreFormatted(formatted_text, p.value)} :
       /\ formatted_text' = ft
       /\ last_call' = p.sent
       /\ last_format' = IF p.raised THEN last_format
                         ELSE << [raw_text |-> subtitles, result |-> p.value] >>
       /\ shown' = shown \cup (IF ~p.raised /\ Truthy(ft)
                                 THEN {"formatted", "generate_btn"} ELSE {})
       /\ EndRun(p.errors)
  /\ UNCHANGED <<env_pat, secret_pat, url_or_id, selected_model_name, video_id, subtitles,
                 video_description, temp_file, file_by, content, event, fvars, ivars>>

\* lines 128-152, then 213-214: the provider has done kind for the title
\* request; the returned value is rendered.  An exception ends the run.
GenerateReply ==
  /\ pc = "wait_video"
  /\ \E kind \in ReplyKinds :
     \E g \in {format_with_clarifai_api(formatted_text, video_prompt, kind)} :
       /\ video_description' = IF g.raised THEN None ELSE g.value
       /\ last_call' = g.sent
       /\ shown' = shown \cup (IF g.raised THEN {} ELSE {"description"})
       /\ EndRun(g.errors)
  /\ UNCHANGED <<env_pat, secret_pat, url_or_id, selected_model_name, video_id, subtitles,
                 formatted_text, temp_file, file_by, content, last_format, event,
                 fvars, ivars>>

\* The video another session fetches.
OtherVideo == <<"b">>

\* Another session's download_subtitles, at any point of this one's run: its
\* ydl.download writes the file (line 96) or its os.remove removes it (line 102).
OtherSession ==
  /\ \/ /\ temp_file # CaptionDoc(OtherVideo)
        /\ temp_file' = CaptionDoc(OtherVideo)
        /\ file_by' = "other"
     \/ /\ temp_file # None
        /\ temp_file' = None
        /\ file_by' = "none"
  /\ UNCHANGED <<env_pat, secret_pat, url_or_id, selected_model_name, video_id, subtitles,
                 formatted_text, video_description, content, pc, shown, errors, last_call,
                 last_format,
                 event, fvars, ivars>>

Next ==
  \/ EnterUrl
  \/ SelectModel
  \/ Rerun
  \/ ClickPunctuate
  \/ ClickGenerate
  \/ YdlDownload
  \/ ReadFile
  \/ RemoveFile
  \/ RenderButtons
  \/ PunctuateReply
  \/ GenerateReply
  \/ OtherSession

(***************************************************************************)
(* The specifications: a session of the script, a call of filter_subtitles *)
(* on any document, a call of extract_video_id on any string.              *)
(***************************************************************************)
Spec == SessionInit /\ [][Next]_vars

SpecFilter == FilterInit /\ [][FilterNext]_vars

SpecId == IdInit /\ [][IdNext]_vars

(***************************************************************************)
(* Properties of the session.                                              *)
(***************************************************************************)
\* Neither the environment variable nor the secrets store yields a credential.
NoCredential == ~Truthy(env_pat) /\ secret_pat = None

\* The last request sent carried the title prompt.
TitleCallSent == last_call # <<>> /\ last_call[1].request.prompt = video_prompt

\* C7: a request carries the environment's credential when the environment has
\* one and the secrets store's only when it has none; when neither yields one
\* the error is shown, the run halts and no request is ever sent.
C7_CredentialFromEnvironmentFirst ==
  /\ last_call # <<>> =>
       /\ Truthy(env_pat) =>
            last_call[1].request.authorization = <<"K", "e", "y", " ">> \o env_pat
       /\ ~Truthy(env_pat) =>
            /\ secret_pat # None
            /\ last_call[1].request.authorization = <<"K", "e", "y", " ">> \o secret_pat
  /\ NoCredential =>
       /\ last_call = <<>>
       /\ pc \notin {"wait_format", "wait_video"}
       /\ formatted_text = None
       /\ {"formatted", "generate_btn", "description"} \cap shown = {}
       /\ (pc = "idle" /\ event = "punctuate" /\ Truthy(subtitles)) =>
            {"pat_missing", "TypeError"} \subseteq errors
  /\ "pat_missing" \in errors => NoCredential /\ event = "punctuate"

\* C7 witness: Punctuate was clicked on a fetched transcript with no credential anywhere.
C7_Witness ==
  /\ NoCredential
  /\ pc = "idle"
  /\ event = "punctuate"
  /\ Truthy(subtitles)
  /\ "pat_missing" \in errors
  /\ last_call = <<>>

\* C8: a title request carries the non-empty text the last completed punctuate
\* request returned, which is the stored text; after a punctuate request that
\* ended in a provider error the stored text is None and the title button is
\* not offered, so no title request follows until a punctuate request succeeds.
C8_TitleOnlyFromCompletedPunctuate ==
  /\ TitleCallSent =>
       /\ Truthy(last_call[1].request.raw_text)
       /\ last_format # <<>>
       /\ last_call[1].request.raw_text = last_format[1].result
       /\ last_call[1].request.raw_text = formatted_text
  /\ formatted_text # None =>
       last_format # <<>> /\ last_format[1].result = formatted_text
  /\ (pc = "idle" /\ event = "punctuate" /\ "provider" \in errors) =>
       formatted_text = None /\ "generate_btn" \notin shown
  /\ "generate_btn" \in shown => Truthy(formatted_text)
  /\ (pc # "idle" /\ event = "generate") => Truthy(formatted_text)
  /\ pc = "wait_video" =>
       last_format # <<>> /\ last_format[1].result = formatted_text

\* C8 witness: the title request was sent and answered, for the stored text of
\* a completed punctuate request.
C8_Witness ==
  /\ pc = "idle"
  /\ event = "generate"
  /\ TitleCallSent
  /\ last_call[1].result # Raised
  /\ "description" \in shown

\* C9 as stated: once a call of download_subtitles has ended, however it
\* ended, the temporary caption file it created does not exist (a file that
\* another session wrote meanwhile is not counted).
C9_TempFileRemoved ==
  pc \notin {"ydl", "read", "remove"} => (temp_file = None \/ file_by = "other")

\* C10 as stated: a punctuated transcript that is displayed (and offered to the
\* title request) was returned by a punctuate request on the transcript of the
\* video identifier now entered.
C10_FormattedTextOfCurrentVideo ==
  "formatted" \in shown =>
    /\ last_format # <<>>
    /\ last_format[1].result = formatted_text
    /\ last_format[1].raw_text =
         download_subtitles_value(UniversalNewlines(CaptionDoc(video_id)))
=============================================================================
